---- MODULE Spec2Model ----
(***************************************************************************)
(* nyancache: upload coordination (src/main.rs) on top of the storage      *)
(* backends (src/backend/local.rs, src/backend/s3.rs) and the paths index  *)
(* (src/schema.rs, src/models.rs).                                         *)
(*                                                                         *)
(* Requests run concurrently; every await that touches shared state (the   *)
(* staging/data namespaces, the queued_uploads mutex, the paths table) is  *)
(* one step of the request that performs it.                               *)
(***************************************************************************)
EXTENDS Integers, Sequences, FiniteSets, TLC

(***************************************************************************)
(* Bounds                                                                  *)
(***************************************************************************)
\* requests the server receives in one run
MaxReq == 4
\* requests in flight at the same time
MaxActive == 2
\* chunks of one upload body
StreamLen == 2

Slots == 1..MaxActive

(***************************************************************************)
(* Option<T>                                                               *)
(***************************************************************************)
Some(v) == [some |-> TRUE, v |-> v]
NoneStr == [some |-> FALSE, v |-> ""]

\* str::strip_prefix
StripPrefix(s, p) ==
    IF Len(s) >= Len(p) /\ SubSeq(s, 1, Len(p)) = p
    THEN Some(SubSeq(s, Len(p) + 1, Len(s)))
    ELSE NoneStr

(***************************************************************************)
(* Request parameters                                                      *)
(***************************************************************************)
\* <name> of PUT /nar/<name>.nar.xz: the names the server knows keys for, and
\* the names the clients of Spec send
KeyNames == {"x", "y"}
NarXzNames == {"x"}
\* <name> of PUT /<name>.narinfo
NarinfoNames == {"a", "b"}

\* put_nar: format!("{}.nar.xz", name.0)
NarUrl(name) == name \o ".nar.xz"

\* the storage keys
Urls == {NarUrl(n) : n \in KeyNames}

(***************************************************************************)
(* Signatures (src/nixutils/mod.rs)                                        *)
(***************************************************************************)
\* Ed25519 is abstracted: the signature made with the secret half of public
\* key pk over msg is the pair, and nothing else verifies under pk.
Ed25519Sign(pk, msg) == "ed25519[" \o pk \o "|" \o msg \o "]"
Ed25519Verify(pk, msg, sig) == sig = Ed25519Sign(pk, msg)

\* the strings this model puts in a BTreeSet, in its order
RefOrder == <<"/nix/store/", "/nix/store/r1", "/nix/store/r2", "r3">>

\* str::find of a one-character pattern from position i on; 0 when absent
RECURSIVE FindFrom(_, _, _)
FindFrom(s, ch, i) ==
    IF i > Len(s) THEN 0
    ELSE IF SubSeq(s, i, i) = ch THEN i
    ELSE FindFrom(s, ch, i + 1)

Find(s, ch) == FindFrom(s, ch, 1)

\* s.splitn(2, ":"): the first item is always there, the second only when s
\* has a colon
SplitN2(s) ==
    LET colon == Find(s, ":")
    IN  IF colon = 0 THEN [first |-> s, second |-> NoneStr]
        ELSE [first |-> SubSeq(s, 1, colon - 1),
              second |-> Some(SubSeq(s, colon + 1, Len(s)))]

\* base32::encode and base32::decode: the digest is kept apart from its
\* encoding, and decode accepts exactly what encode produces
Base32Encode(bytes) == "b32<" \o bytes \o ">"

Base32Decode(s) ==
    IF Len(s) >= 5 /\ SubSeq(s, 1, 4) = "b32<" /\ SubSeq(s, Len(s), Len(s)) = ">"
    THEN [ok |-> TRUE, err |-> "", v |-> SubSeq(s, 5, Len(s) - 1)]
    ELSE [ok |-> FALSE, err |-> "BadBase32", v |-> ""]

\* HashType, by its strum serialization
HashTypes == {"md5", "sha1", "sha256", "sha512"}

NoHash == [hash_type |-> "", hash |-> ""]

\* NixHash::from_str
NixHashFromStr(s) ==
    LET parts == SplitN2(s)
    IN  IF parts.first \notin HashTypes
        THEN [ok |-> FALSE, err |-> "UnknownHashType", v |-> NoHash]
        ELSE IF ~parts.second.some
        THEN [ok |-> FALSE, err |-> "UnexpectedEof", v |-> NoHash]
        ELSE LET d == Base32Decode(parts.second.v)
             IN  IF ~d.ok THEN [ok |-> FALSE, err |-> d.err, v |-> NoHash]
                 ELSE [ok |-> TRUE, err |-> "",
                       v |-> [hash_type |-> parts.first, hash |-> d.v]]

\* Display for NixHash
NixHashToString(h) == h.hash_type \o ":" \o Base32Encode(h.hash)

RECURSIVE Join(_, _)
Join(seq, sep) ==
    IF seq = <<>> THEN ""
    ELSE IF Len(seq) = 1 THEN seq[1]
    ELSE seq[1] \o sep \o Join(Tail(seq), sep)

SortedRefs(refs) == SelectSeq(RefOrder, LAMBDA r : r \in refs)

\* fingerprint with the references joined as DbPath joins them
fingerprintSpaceJoined(nar_info) ==
    "1;" \o nar_info.path \o ";" \o NixHashToString(nar_info.nar_hash) \o ";"
         \o ToString(nar_info.nar_size) \o ";"
         \o Join(SortedRefs(nar_info.references), " ")

fingerprint(nar_info) ==
    "1;" \o nar_info.path \o ";" \o NixHashToString(nar_info.nar_hash) \o ";"
         \o ToString(nar_info.nar_size) \o ";"
         \o Join(SortedRefs(nar_info.references), ",")

\* CheckFrom that gives up after the first trusted key
CheckFromFirstOnly(nar_info, trusted_keys, i) ==
    IF i > Len(trusted_keys) THEN "NoValidSignature"
    ELSE IF /\ trusted_keys[i].key_name \in DOMAIN nar_info.signatures
            /\ Ed25519Verify(trusted_keys[i].pub_key, fingerprint(nar_info),
                             nar_info.signatures[trusted_keys[i].key_name])
         THEN "SignatureVerified"
         ELSE "NoValidSignature"

RECURSIVE CheckFrom(_, _, _)
CheckFrom(nar_info, trusted_keys, i) ==
    IF i > Len(trusted_keys) THEN "NoValidSignature"
    ELSE IF /\ trusted_keys[i].key_name \in DOMAIN nar_info.signatures
            /\ Ed25519Verify(trusted_keys[i].pub_key, fingerprint(nar_info),
                             nar_info.signatures[trusted_keys[i].key_name])
         THEN "SignatureVerified"
         ELSE CheckFrom(nar_info, trusted_keys, i + 1)

check_signature(nar_info, trusted_keys) == CheckFrom(nar_info, trusted_keys, 1)

\* the keys the cache trusts
TrustedKeys == <<[key_name |-> "k1", pub_key |-> "pk1"]>>

(***************************************************************************)
(* NarInfo values a client sends (already parsed by NarInfo::from_str)     *)
(***************************************************************************)
NoSigs == [k \in {} |-> ""]

MkNarInfo(path, url, signer) ==
    LET unsigned == [path |-> path,
                     nar_hash |-> [hash_type |-> "sha256", hash |-> "0"],
                     nar_size |-> 1,
                     url |-> url, references |-> {"/nix/store/r1"},
                     signatures |-> NoSigs]
    IN  IF signer = "" THEN unsigned
        ELSE [unsigned EXCEPT !.signatures =
                 [k \in {"k1"} |-> Ed25519Sign(signer, fingerprint(unsigned))]]

\* M1, M2: two records for x.nar.xz, M2 signed by a key that is not trusted;
\* M3: a record for y.nar.xz; M4: no URL line; M5: a URL outside nar/
M1 == MkNarInfo("/nix/store/p1", Some("nar/x.nar.xz"), "pk1")
M2 == MkNarInfo("/nix/store/p2", Some("nar/x.nar.xz"), "pk2")
M3 == MkNarInfo("/nix/store/p3", Some("nar/y.nar.xz"), "pk1")
M4 == MkNarInfo("/nix/store/p1", NoneStr, "pk1")
M5 == MkNarInfo("/nix/store/p1", Some("x.nar.xz"), "pk1")
NarInfos == {M1, M2, M4, M5}
\* one record per key, for the clients that upload distinct keys
PairInfos == {M1, M3}

(***************************************************************************)
(* DbPath (src/models.rs)                                                  *)
(***************************************************************************)
\* a u64 is held as four 16-bit limbs, the least significant first
Limb == 65536

\* the u64 of a size below 2^31
U64Of(n) == <<n % Limb, n \div Limb, 0, 0>>

\* `x as i32` for a u64: the low 32 bits, read as two's complement
U64AsI32(x) ==
    IF x[2] >= Limb \div 2 THEN (x[2] - Limb) * Limb + x[1]
    ELSE x[2] * Limb + x[1]

\* `x as u64` for an i32: sign extension
I32AsU64(n) ==
    IF n >= 0 THEN <<n % Limb, n \div Limb, 0, 0>>
    ELSE LET low == (n + 2147483647) + 1
         IN  <<low % Limb, (low \div Limb) + Limb \div 2, Limb - 1, Limb - 1>>

\* `as i32` for the sizes of the uploads, all below 2^31
AsI32(n) == U64AsI32(U64Of(n))

\* base64::encode, kept apart from its argument
Base64Encode(bytes) == "b64<" \o bytes \o ">"

\* Display for Signature
SignatureToString(key_name, signature) ==
    key_name \o ":" \o Base64Encode(signature)

\* the entries of a HashMap in one iteration order
RECURSIVE SigStrings(_)
SigStrings(signatures) ==
    IF DOMAIN signatures = {} THEN <<>>
    ELSE LET k == CHOOSE k \in DOMAIN signatures : TRUE
         IN  <<SignatureToString(k, signatures[k])>>
               \o SigStrings([j \in DOMAIN signatures \ {k} |-> signatures[j]])

\* #[derive(Default)] for DbPath
DefaultDbPath ==
    [id |-> "", path |-> "", nar_size |-> 0, nar_hash |-> "", url |-> NoneStr,
     sigs |-> "", refs |-> ""]

\* From<NarInfo> for DbPath
DbPathFrom(nar_info) ==
    [id |-> "",
     path |-> nar_info.path,
     nar_size |-> AsI32(nar_info.nar_size),
     nar_hash |-> NixHashToString(nar_info.nar_hash),
     url |-> nar_info.url,
     sigs |-> Join(SigStrings(nar_info.signatures), " "),
     refs |-> Join(SortedRefs(nar_info.references), " ")]

SomeDb(db) == [some |-> TRUE, v |-> db]
NoneDb == [some |-> FALSE, v |-> DefaultDbPath]

(***************************************************************************)
(* The text codecs (src/nixutils/mod.rs)                                   *)
(*                                                                         *)
(* A text is the sequence of its lines, as str::lines gives them.          *)
(***************************************************************************)
\* base64::decode, accepting exactly what Base64Encode produces
Base64Decode(s) ==
    IF Len(s) >= 5 /\ SubSeq(s, 1, 4) = "b64<" /\ SubSeq(s, Len(s), Len(s)) = ">"
    THEN [ok |-> TRUE, err |-> "", v |-> SubSeq(s, 5, Len(s) - 1)]
    ELSE [ok |-> FALSE, err |-> "Base64", v |-> ""]

NoSignature == [key_name |-> "", signature |-> ""]

\* Signature::from_str
SignatureFromStr(s) ==
    LET parts == SplitN2(s)
    IN  IF ~parts.second.some
        THEN [ok |-> FALSE, err |-> "UnexpectedEof", v |-> NoSignature]
        ELSE LET d == Base64Decode(parts.second.v)
             IN  IF ~d.ok THEN [ok |-> FALSE, err |-> d.err, v |-> NoSignature]
                 ELSE [ok |-> TRUE, err |-> "",
                       v |-> [key_name |-> parts.first, signature |-> d.v]]

NoPubKey == [key_name |-> "", pub_key |-> ""]

\* PubKey::from_str
PubKeyFromStr(s) ==
    LET parts == SplitN2(s)
    IN  IF ~parts.second.some
        THEN [ok |-> FALSE, err |-> "UnexpectedEof", v |-> NoPubKey]
        ELSE LET d == Base64Decode(parts.second.v)
             IN  IF ~d.ok THEN [ok |-> FALSE, err |-> d.err, v |-> NoPubKey]
                 ELSE [ok |-> TRUE, err |-> "",
                       v |-> [key_name |-> parts.first, pub_key |-> d.v]]

\* Compression: the variants, and the strum serialization of each
Compressions == {"Xz", "Bzip2", "Gzip", "Zstd", "Plain"}

CompressionAsRef(c) ==
    CASE c = "Xz" -> "xz"
      [] c = "Bzip2" -> "bzip2"
      [] c = "Gzip" -> "gzip"
      [] c = "Zstd" -> "zstd"
      [] c = "Plain" -> "none"

\* Compression::from_str
CompressionFromStr(s) ==
    IF \E c \in Compressions : CompressionAsRef(c) = s
    THEN Some(CHOOSE c \in Compressions : CompressionAsRef(c) = s)
    ELSE NoneStr

\* the decimal digits
Digits == <<"0", "1", "2", "3", "4", "5", "6", "7", "8", "9">>

DigitValue(ch) ==
    IF \E d \in 1..10 : Digits[d] = ch
    THEN (CHOOSE d \in 1..10 : Digits[d] = ch) - 1
    ELSE -1

\* the value of a string of digits read after acc; -1 when a character is not
\* a digit
RECURSIVE ParseDigits(_, _, _)
ParseDigits(s, i, acc) ==
    IF i > Len(s) THEN acc
    ELSE LET d == DigitValue(SubSeq(s, i, i))
         IN  IF d < 0 THEN -1 ELSE ParseDigits(s, i + 1, acc * 10 + d)

NoneNat == [some |-> FALSE, v |-> 0]

\* str::parse::<u64>: digits, after an optional plus sign
ParseU64(s) ==
    LET digits == IF Len(s) >= 1 /\ SubSeq(s, 1, 1) = "+"
                  THEN SubSeq(s, 2, Len(s)) ELSE s
        n == IF digits = "" THEN -1 ELSE ParseDigits(digits, 1, 0)
    IN  IF n < 0 THEN NoneNat ELSE [some |-> TRUE, v |-> n]

\* value.split(' ')
RECURSIVE Split(_, _)
Split(s, ch) ==
    LET at == Find(s, ch)
    IN  IF at = 0 THEN <<s>>
        ELSE <<SubSeq(s, 1, at - 1)>> \o Split(SubSeq(s, at + 1, Len(s)), ch)

NoneHash == [some |-> FALSE, v |-> NoHash]

\* what Into<NarInfo> for DbPath yields when one of its unwrap() calls panics
NoIndexed ==
    [path |-> "", nar_hash |-> NoHash, nar_size |-> U64Of(0), url |-> NoneStr,
     references |-> {}, signatures |-> NoSigs]

\* Into<NarInfo> for DbPath, for the columns DbPath holds here; ok is FALSE
\* when an unwrap() panics, and nar_size is the u64 of `self.nar_size as u64`
DbPathInto(db) ==
    LET h == NixHashFromStr(db.nar_hash)
        sigs == Split(db.sigs, " ")
        parsed == [k \in 1..Len(sigs) |-> SignatureFromStr(sigs[k])]
        refs == Split(db.refs, " ")
        names == {parsed[k].v.key_name : k \in 1..Len(sigs)}
        last(name) == CHOOSE k \in 1..Len(sigs) :
                         /\ parsed[k].v.key_name = name
                         /\ \A j \in 1..Len(sigs) :
                               parsed[j].v.key_name = name => j <= k
    IN  IF ~h.ok \/ \E k \in 1..Len(sigs) : ~parsed[k].ok
        THEN [ok |-> FALSE, v |-> NoIndexed]
        ELSE [ok |-> TRUE,
              v |-> [path |-> db.path,
                     nar_hash |-> h.v,
                     nar_size |-> I32AsU64(db.nar_size),
                     url |-> db.url,
                     references |-> {refs[k] : k \in 1..Len(refs)},
                     signatures |-> [name \in names |->
                                        parsed[last(name)].v.signature]]]

\* the locals of NarInfo::from_str before the first line
Unparsed ==
    [err |-> "", path |-> NoneStr, nar_hash |-> NoneHash, nar_size |-> NoneNat,
     file_hash |-> NoneHash, file_size |-> NoneNat, url |-> NoneStr,
     compression |-> NoneStr, deriver |-> NoneStr, ca |-> NoneStr,
     references |-> {}, signatures |-> NoSigs, warnings |-> 0]

Fail(acc, err) == [acc EXCEPT !.err = err]

\* NarInfo::from_str, the body of the loop for one line
ParseLine(acc, line) ==
    LET colon == Find(line, ":")
        name == SubSeq(line, 1, colon - 1)
        rest == SubSeq(line, colon, Len(line))
        value == SubSeq(rest, 3, Len(rest))
        hash == NixHashFromStr(value)
        size == ParseU64(value)
        comp == CompressionFromStr(value)
        sig == SignatureFromStr(value)
    IN  IF colon = 0 THEN Fail(acc, "BadNarInfo")
        ELSE IF ~(Len(rest) >= 2 /\ SubSeq(rest, 1, 2) = ": ")
        THEN Fail(acc, "BadNarInfo")
        ELSE CASE name = "StorePath" -> [acc EXCEPT !.path = Some(value)]
               [] name = "NarHash" ->
                    IF hash.ok THEN [acc EXCEPT !.nar_hash = [some |-> TRUE, v |-> hash.v]]
                    ELSE Fail(acc, hash.err)
               [] name = "NarSize" ->
                    IF size.some THEN [acc EXCEPT !.nar_size = size]
                    ELSE Fail(acc, "BadNarInfo")
               [] name = "FileHash" ->
                    IF hash.ok THEN [acc EXCEPT !.file_hash = [some |-> TRUE, v |-> hash.v]]
                    ELSE Fail(acc, hash.err)
               [] name = "FileSize" ->
                    IF size.some THEN [acc EXCEPT !.file_size = size]
                    ELSE Fail(acc, "BadNarInfo")
               [] name = "URL" -> [acc EXCEPT !.url = Some(value)]
               [] name = "Compression" ->
                    IF comp.some THEN [acc EXCEPT !.compression = comp]
                    ELSE Fail(acc, "BadNarInfo")
               [] name = "Deriver" -> [acc EXCEPT !.deriver = Some(value)]
               [] name = "References" ->
                    LET segs == Split(value, " ")
                    IN  [acc EXCEPT !.references =
                            @ \cup {"/nix/store/" \o segs[k] : k \in 1..Len(segs)}]
               [] name = "Sig" ->
                    IF sig.ok
                    THEN [acc EXCEPT
                            !.signatures =
                               [k \in DOMAIN @ \cup {sig.v.key_name} |->
                                   IF k = sig.v.key_name THEN sig.v.signature
                                   ELSE @[k]],
                            !.warnings =
                               IF sig.v.key_name \in DOMAIN acc.signatures
                               THEN @ + 1 ELSE @]
                    ELSE Fail(acc, sig.err)
               [] name = "CA" -> [acc EXCEPT !.ca = Some(value)]
               [] OTHER -> [acc EXCEPT !.warnings = @ + 1]

\* NarInfo::from_str, the loop: the first failing line returns its error
RECURSIVE ParseLines(_, _, _)
ParseLines(acc, lines, i) ==
    IF acc.err # "" \/ i > Len(lines) THEN acc
    ELSE ParseLines(ParseLine(acc, lines[i]), lines, i + 1)

NoNarInfo ==
    [path |-> "", nar_hash |-> NoHash, nar_size |-> 0, file_hash |-> NoneHash,
     file_size |-> NoneNat, url |-> NoneStr, compression |-> NoneStr,
     deriver |-> NoneStr, ca |-> NoneStr, references |-> {},
     signatures |-> NoSigs]

\* NarInfoFromStr with a NarSize that defaults to 0 when the line is missing
NarInfoFromStrDefaultSize(lines) ==
    LET acc == ParseLines(Unparsed, lines, 1)
    IN  IF acc.err # ""
        THEN [ok |-> FALSE, err |-> acc.err, v |-> NoNarInfo]
        ELSE IF ~acc.path.some \/ ~acc.nar_hash.some
        THEN [ok |-> FALSE, err |-> "BadNarInfo", v |-> NoNarInfo]
        ELSE [ok |-> TRUE, err |-> "",
              v |-> [path |-> acc.path.v, nar_hash |-> acc.nar_hash.v,
                     nar_size |-> acc.nar_size.v, file_hash |-> acc.file_hash,
                     file_size |-> acc.file_size, url |-> acc.url,
                     compression |-> acc.compression, deriver |-> acc.deriver,
                     ca |-> acc.ca, references |-> acc.references,
                     signatures |-> acc.signatures]]

\* NarInfo::from_str
NarInfoFromStr(lines) ==
    LET acc == ParseLines(Unparsed, lines, 1)
    IN  IF acc.err # ""
        THEN [ok |-> FALSE, err |-> acc.err, v |-> NoNarInfo]
        ELSE IF ~acc.path.some \/ ~acc.nar_hash.some \/ ~acc.nar_size.some
        THEN [ok |-> FALSE, err |-> "BadNarInfo", v |-> NoNarInfo]
        ELSE [ok |-> TRUE, err |-> "",
              v |-> [path |-> acc.path.v, nar_hash |-> acc.nar_hash.v,
                     nar_size |-> acc.nar_size.v, file_hash |-> acc.file_hash,
                     file_size |-> acc.file_size, url |-> acc.url,
                     compression |-> acc.compression, deriver |-> acc.deriver,
                     ca |-> acc.ca, references |-> acc.references,
                     signatures |-> acc.signatures]]

\* ReferenceSegments without the strip_prefix
RECURSIVE ReferenceSegmentsUnstripped(_)
ReferenceSegmentsUnstripped(refs) ==
    IF refs = <<>> THEN ""
    ELSE " " \o refs[1] \o ReferenceSegmentsUnstripped(Tail(refs))

\* Display for NarInfo: the References line
RECURSIVE ReferenceSegments(_)
ReferenceSegments(refs) ==
    IF refs = <<>> THEN ""
    ELSE LET stripped == StripPrefix(refs[1], "/nix/store/")
         IN  (IF stripped.some THEN " " \o stripped.v ELSE "")
                \o ReferenceSegments(Tail(refs))

\* one line when the field is there
OptLine(key, opt, text) == IF opt.some THEN <<key \o ": " \o text>> ELSE <<>>

\* Display for NarInfo
NarInfoToString(m) ==
    <<"StorePath: " \o m.path,
      "NarHash: " \o NixHashToString(m.nar_hash),
      "NarSize: " \o ToString(m.nar_size)>>
    \o OptLine("FileHash", m.file_hash, NixHashToString(m.file_hash.v))
    \o OptLine("FileSize", m.file_size, ToString(m.file_size.v))
    \o OptLine("URL", m.url, m.url.v)
    \o OptLine("Compression", m.compression,
               IF m.compression.some THEN CompressionAsRef(m.compression.v) ELSE "")
    \o OptLine("Deriver", m.deriver, m.deriver.v)
    \o (IF Cardinality(m.references) > 0
        THEN <<"References:" \o ReferenceSegments(SortedRefs(m.references))>>
        ELSE <<>>)
    \o [k \in 1..Len(SigStrings(m.signatures)) |->
           "Sig: " \o SigStrings(m.signatures)[k]]
    \o OptLine("CA", m.ca, m.ca.v)

(***************************************************************************)
(* The pending table (src/main.rs)                                         *)
(***************************************************************************)
\* enum IncompleteUpload; Absent is a key the BTreeMap does not hold
Nar == [tag |-> "Nar", nar_info |-> DefaultDbPath]
NarInfoPart(db) == [tag |-> "NarInfo", nar_info |-> db]
Absent == [tag |-> "Absent", nar_info |-> DefaultDbPath]

\* LockedTransition that keeps the entry it finds when the part is of the
\* same kind
LockedTransitionKeepFirst(queued, url, part) ==
    LET removed == queued[url]
        rest == [queued EXCEPT ![url] = Absent]
    IN  IF part.tag = "Nar" /\ removed.tag = "NarInfo"
        THEN [queued |-> rest, nar_info |-> SomeDb(removed.nar_info)]
        ELSE IF part.tag = "NarInfo" /\ removed.tag = "Nar"
        THEN [queued |-> rest, nar_info |-> SomeDb(part.nar_info)]
        ELSE IF removed.tag = part.tag
        THEN [queued |-> queued, nar_info |-> NoneDb]
        ELSE [queued |-> [rest EXCEPT ![url] = part], nar_info |-> NoneDb]

\* LockedTransition without the arm for bytes that find a record waiting
LockedTransitionLostNarArm(queued, url, part) ==
    LET removed == queued[url]
        rest == [queued EXCEPT ![url] = Absent]
    IN  IF part.tag = "NarInfo" /\ removed.tag = "Nar"
        THEN [queued |-> rest, nar_info |-> SomeDb(part.nar_info)]
        ELSE [queued |-> [rest EXCEPT ![url] = part], nar_info |-> NoneDb]

\* LockedTransition, finalizing a record as soon as it arrives
LockedTransitionEager(queued, url, part) ==
    LET removed == queued[url]
        rest == [queued EXCEPT ![url] = Absent]
    IN  IF part.tag = "Nar" /\ removed.tag = "NarInfo"
        THEN [queued |-> rest, nar_info |-> SomeDb(removed.nar_info)]
        ELSE IF part.tag = "NarInfo"
        THEN [queued |-> rest, nar_info |-> SomeDb(part.nar_info)]
        ELSE [queued |-> [rest EXCEPT ![url] = part], nar_info |-> NoneDb]

\* LockedTransition without the arm for a record that finds the bytes waiting
LockedTransitionLostArm(queued, url, part) ==
    LET removed == queued[url]
        rest == [queued EXCEPT ![url] = Absent]
    IN  IF part.tag = "Nar" /\ removed.tag = "NarInfo"
        THEN [queued |-> rest, nar_info |-> SomeDb(removed.nar_info)]
        ELSE [queued |-> [rest EXCEPT ![url] = part], nar_info |-> NoneDb]

\* LockedTransition over one pending slot for the whole server instead of one
\* per key: the part meets whatever is pending, and the table is left with at
\* most the new part
LockedTransitionGlobal(queued, url, part) ==
    LET waiting == {k \in DOMAIN queued : queued[k] # Absent}
        removed == IF waiting = {} THEN Absent
                   ELSE queued[CHOOSE k \in waiting : TRUE]
        rest == [k \in DOMAIN queued |-> Absent]
    IN  IF part.tag = "Nar" /\ removed.tag = "NarInfo"
        THEN [queued |-> rest, nar_info |-> SomeDb(removed.nar_info)]
        ELSE IF part.tag = "NarInfo" /\ removed.tag = "Nar"
        THEN [queued |-> rest, nar_info |-> SomeDb(part.nar_info)]
        ELSE [queued |-> [rest EXCEPT ![url] = part], nar_info |-> NoneDb]

\* LockedTransition that looks the entry up without removing it: a paired
\* entry stays in the table
LockedTransitionKeepPaired(queued, url, part) ==
    LET removed == queued[url]
    IN  IF part.tag = "Nar" /\ removed.tag = "NarInfo"
        THEN [queued |-> queued, nar_info |-> SomeDb(removed.nar_info)]
        ELSE IF part.tag = "NarInfo" /\ removed.tag = "Nar"
        THEN [queued |-> queued, nar_info |-> SomeDb(part.nar_info)]
        ELSE [queued |-> [queued EXCEPT ![url] = part], nar_info |-> NoneDb]

\* the lock().await block of add_incomplete: remove, match, insert
LockedTransition(queued, url, part) ==
    LET removed == queued[url]
        rest == [queued EXCEPT ![url] = Absent]
    IN  IF part.tag = "Nar" /\ removed.tag = "NarInfo"
        THEN [queued |-> rest, nar_info |-> SomeDb(removed.nar_info)]
        ELSE IF part.tag = "NarInfo" /\ removed.tag = "Nar"
        THEN [queued |-> rest, nar_info |-> SomeDb(part.nar_info)]
        ELSE [queued |-> [rest EXCEPT ![url] = part], nar_info |-> NoneDb]

(***************************************************************************)
(* The backends (src/backend/local.rs, src/backend/s3.rs)                  *)
(*                                                                         *)
(* tmp and data map a key to the object under it in the staging and in the *)
(* visible namespace.  The bytes of an object are its chunks; a chunk is    *)
(* the slot of the request that wrote it, 0 is a hole.                     *)
(***************************************************************************)
NoFile == [present |-> FALSE, bytes |-> <<>>]
EmptyFile == [present |-> TRUE, bytes |-> <<>>]

\* the whole body sent by the request in slot w
Body(w) == [k \in 1..StreamLen |-> w]

\* one write of a file at offset off (0-based)
RECURSIVE Holes(_)
Holes(n) == IF n <= 0 THEN <<>> ELSE <<0>> \o Holes(n - 1)

WriteAt(content, off, chunk) ==
    IF off < Len(content) THEN [content EXCEPT ![off + 1] = chunk]
    ELSE content \o Holes(off - Len(content)) \o <<chunk>>

\* LocalBackend::write_nar, fs::File::create: truncates the file at the path
\* when there is one, creates it otherwise
LocalCreate(st, url) ==
    IF st.tmp[url].present THEN [st EXCEPT !.tmp[url].bytes = <<>>]
    ELSE [st EXCEPT !.tmp[url] = EmptyFile]

\* LocalBackend::write_nar, one chunk of tokio::io::copy into the open file;
\* fd tells where the file is by now: still under tmp, renamed to data, or
\* unlinked
LocalWrite(st, url, fd, off, chunk) ==
    IF fd = "tmp" THEN [st EXCEPT !.tmp[url].bytes = WriteAt(@, off, chunk)]
    ELSE IF fd = "data" THEN [st EXCEPT !.data[url].bytes = WriteAt(@, off, chunk)]
    ELSE st

\* Bucket::write_nar, put_object_stream: the object appears under the key,
\* whole, when the upload completes
S3Put(st, url, body) == [st EXCEPT !.tmp[url] = [present |-> TRUE, bytes |-> body]]

\* LocalRename that takes the file out of tmp without it reaching data
LocalRenameLost(st, url) ==
    IF ~st.tmp[url].present THEN [ok |-> FALSE, st |-> st]
    ELSE [ok |-> TRUE, st |-> [st EXCEPT !.tmp[url] = NoFile]]

\* LocalBackend::finish_nar, fs::rename(tmppath, newpath)
LocalRename(st, url) ==
    IF ~st.tmp[url].present THEN [ok |-> FALSE, st |-> st]
    ELSE [ok |-> TRUE,
          st |-> [st EXCEPT !.data[url] = st.tmp[url], !.tmp[url] = NoFile]]

\* an open file follows its rename; the file the rename replaces is unlinked
FollowRename(fd) ==
    IF fd = "tmp" THEN "data" ELSE IF fd = "data" THEN "unlinked" ELSE fd

\* S3Copy that reports Ok without the object having reached the final key
S3CopyLost(st, url) ==
    IF ~st.tmp[url].present THEN [ok |-> FALSE, st |-> st]
    ELSE [ok |-> TRUE, st |-> st]

\* Bucket::finish_nar, copy_object_internal(tmppath, newpath)
S3Copy(st, url) ==
    IF ~st.tmp[url].present THEN [ok |-> FALSE, st |-> st]
    ELSE [ok |-> TRUE, st |-> [st EXCEPT !.data[url] = st.tmp[url]]]

\* Bucket::finish_nar, delete_object(tmppath)
S3Delete(st, url) == [st EXCEPT !.tmp[url] = NoFile]

\* LocalBackend::read_nar: fs::File::open of the path under data; a missing
\* file is an io::Error
LocalReadNar(st, url) ==
    IF st.data[url].present
    THEN [res |-> "Ok(File)", bytes |-> st.data[url].bytes]
    ELSE [res |-> "Err(Io)", bytes |-> <<>>]

\* Bucket::read_nar: the body of the GetObject response, whatever its status
S3ReadNar(st, url) ==
    [res |-> "Ok(Stream)",
     bytes |-> IF st.data[url].present THEN st.data[url].bytes ELSE <<>>]

\* state.backend.read_nar
read_nar(kind, st, url) ==
    IF kind = "local" THEN LocalReadNar(st, url) ELSE S3ReadNar(st, url)

(***************************************************************************)
(* The index, table paths (src/schema.rs)                                  *)
(***************************************************************************)
NoRow == [DefaultDbPath EXCEPT !.id = "-"]

\* diesel::insert_into(paths).values(..).execute(c); id is the primary key
InsertRow(table, row) ==
    IF table[row.id] # NoRow THEN [ok |-> FALSE, table |-> table]
    ELSE [ok |-> TRUE, table |-> [table EXCEPT ![row.id] = row]]

\* paths.filter(db_url.eq(..)).load(c)
RowsByUrl(table, url) ==
    {id \in DOMAIN table : table[id] # NoRow /\ table[id].url = Some(url)}

\* get_nar: the index first, the backend second
get_nar(kind, table, st, name) ==
    IF RowsByUrl(table, "nar/" \o name \o ".nar.xz") = {}
    THEN [res |-> "Err(NotFound)", bytes |-> <<>>]
    ELSE read_nar(kind, st, NarUrl(name))

\* Responder for Error: the status of the response to a failed request
respond_to(res) ==
    IF res = "Err(NotFound)" THEN 404
    ELSE IF SubSeq(res, 1, 3) = "Err" THEN 500
    ELSE 200

(***************************************************************************)
(* State                                                                   *)
(***************************************************************************)
VARIABLES
    backend,          \* State.backend: the Bucket that launch builds ("s3"), or
                      \* the LocalBackend it can be built with instead ("local")
    queued_uploads,   \* State.queued_uploads
    store,            \* the backend's namespaces: tmp and data
    paths,            \* the index
    req,              \* the requests in flight, one per slot
    nreq,             \* requests received so far
    narArr,           \* per key: add_incomplete(Nar) transitions done
    infoArr,          \* per key: add_incomplete(NarInfo) transitions done
    finishCalls,      \* per key: calls of finish_nar
    finishOk,         \* per key: calls of finish_nar that returned Ok
    insertCalls,      \* per key: inserts into paths attempted
    call              \* the codec function applied last, its arguments and
                      \* what it returned

vars == <<backend, queued_uploads, store, paths, req, nreq, narArr, infoArr,
          finishCalls, finishOk, insertCalls, call>>

\* no codec function applied yet
NoCall == [fn |-> "none"]

hist == <<narArr, infoArr, finishCalls, finishOk, insertCalls>>

\* a slot without a request.  fd: where the file write_nar has open is;
\* off: chunks copied; finished: finish_nar returned Ok; promoted: the object
\* under data is the one this request put there
Idle ==
    [pc |-> "idle", url |-> "", nar_info |-> NoneDb, fd |-> "none", off |-> 0,
     finished |-> FALSE, promoted |-> FALSE]

\* requests are told apart by what they do only: a new one takes the lowest
\* free slot
FreeSlot(i) ==
    /\ req[i].pc = "idle"
    /\ \A j \in Slots : j < i => req[j].pc # "idle"

\* Try, with the result dropped
TryIgnored(ok, next) == next

\* the `?` of complete_upload and finish_nar: go on after Ok, return the Err
Try(ok, next) == IF ok THEN next ELSE "idle"

Bump(f, url) == [f EXCEPT ![url] = @ + 1]

\* the slots after request i has put an object under data for its key, or
\* has failed to: the other requests' open files follow, and what the others
\* had put under data is no longer there
AfterPromote(reqs, i, url, ok, renamed, next) ==
    [j \in Slots |->
        IF j = i
        THEN IF next = "idle" THEN Idle
             ELSE [reqs[i] EXCEPT !.pc = next, !.promoted = ok]
        ELSE IF ok /\ reqs[j].url = url
        THEN [reqs[j] EXCEPT !.promoted = FALSE,
                             !.fd = IF renamed THEN FollowRename(@) ELSE @]
        ELSE reqs[j]]

Init ==
    /\ backend \in {"local", "s3"}
    /\ queued_uploads = [u \in Urls |-> Absent]
    /\ store = [tmp |-> [u \in Urls |-> NoFile], data |-> [u \in Urls |-> NoFile]]
    /\ paths = [id \in NarinfoNames |-> NoRow]
    /\ req = [i \in Slots |-> Idle]
    /\ nreq = 0
    /\ narArr = [u \in Urls |-> 0]
    /\ infoArr = [u \in Urls |-> 0]
    /\ finishCalls = [u \in Urls |-> 0]
    /\ finishOk = [u \in Urls |-> 0]
    /\ insertCalls = [u \in Urls |-> 0]
    /\ call = NoCall

(***************************************************************************)
(* put_nar                                                                 *)
(***************************************************************************)
\* the request arrives; LocalBackend::write_nar creates the staging file,
\* Bucket::write_nar starts reading the body
put_nar_open(i, name) ==
    /\ nreq < MaxReq
    /\ FreeSlot(i)
    /\ LET url == NarUrl(name)
       IN  /\ req' = [req EXCEPT ![i] =
                        [Idle EXCEPT !.pc = "copy", !.url = url,
                                     !.fd = IF backend = "local" THEN "tmp"
                                            ELSE "none"]]
           /\ store' = IF backend = "local" THEN LocalCreate(store, url)
                       ELSE store
           /\ nreq' = nreq + 1
    /\ UNCHANGED <<call, backend, queued_uploads, paths, hist>>

\* LocalBackend::write_nar copies one chunk of the body; after the last one
\* it returns Ok
write_nar_copy(i) ==
    /\ req[i].pc = "copy"
    /\ backend = "local"
    /\ LET q == req[i]
       IN  /\ store' = LocalWrite(store, q.url, q.fd, q.off, i)
           /\ req' = [req EXCEPT ![i] =
                        IF q.off + 1 = StreamLen
                        THEN [q EXCEPT !.pc = "add_incomplete", !.off = 0,
                                       !.fd = "none"]
                        ELSE [q EXCEPT !.off = q.off + 1]]
    /\ UNCHANGED <<call, backend, queued_uploads, paths, nreq, hist>>

\* Bucket::write_nar: put_object_stream has read the whole body and returns Ok
write_nar_put(i) ==
    /\ req[i].pc = "copy"
    /\ backend = "s3"
    /\ store' = S3Put(store, req[i].url, Body(i))
    /\ req' = [req EXCEPT ![i].pc = "add_incomplete"]
    /\ UNCHANGED <<call, backend, queued_uploads, paths, nreq, hist>>

\* the body stream fails (the client is gone): write_nar returns Err, and so
\* does put_nar
write_nar_error(i) ==
    /\ req[i].pc = "copy"
    /\ req' = [req EXCEPT ![i] = Idle]
    /\ UNCHANGED <<call, backend, queued_uploads, store, paths, nreq, hist>>

\* add_incomplete(.., IncompleteUpload::Nar)
add_incomplete(i) ==
    /\ req[i].pc = "add_incomplete"
    /\ LET q == req[i]
           t == LockedTransition(queued_uploads, q.url, Nar)
       IN  /\ queued_uploads' = t.queued
           /\ narArr' = Bump(narArr, q.url)
           /\ req' = [req EXCEPT ![i] =
                        IF t.nar_info.some
                        THEN [q EXCEPT !.pc = "finish_nar",
                                       !.nar_info = t.nar_info]
                        ELSE Idle]
    /\ UNCHANGED <<call, backend, store, paths, nreq, infoArr, finishCalls,
                   finishOk, insertCalls>>

(***************************************************************************)
(* put_narinfo                                                             *)
(***************************************************************************)
\* the DbPath put_narinfo builds from the parsed record and the request name
NamedDbPath(name, input) == [DbPathFrom(input) EXCEPT !.id = name]

\* PendingKey that takes the url as the key where it has no "nar/" in front
PendingKeyAnyUrl(nar_info) ==
    IF ~nar_info.url.some THEN NoneStr
    ELSE IF StripPrefix(nar_info.url.v, "nar/").some
    THEN StripPrefix(nar_info.url.v, "nar/")
    ELSE nar_info.url

\* the key put_narinfo derives from the record's url
PendingKey(nar_info) ==
    IF nar_info.url.some THEN StripPrefix(nar_info.url.v, "nar/") ELSE NoneStr

\* the request arrives with a parsed record; with a url under nar/ the part
\* goes through add_incomplete, otherwise the handler warns and returns Ok
put_narinfo(i, name, input) ==
    /\ nreq < MaxReq
    /\ FreeSlot(i)
    /\ nreq' = nreq + 1
    /\ LET nar_info == NamedDbPath(name, input)
           url == PendingKey(nar_info)
       IN  IF url.some
           THEN LET t == LockedTransition(queued_uploads, url.v,
                                          NarInfoPart(nar_info))
                IN  /\ url.v \in Urls
                    /\ queued_uploads' = t.queued
                    /\ infoArr' = Bump(infoArr, url.v)
                    /\ req' = [req EXCEPT ![i] =
                                 IF t.nar_info.some
                                 THEN [Idle EXCEPT !.pc = "finish_nar",
                                                   !.url = url.v,
                                                   !.nar_info = t.nar_info]
                                 ELSE Idle]
           ELSE UNCHANGED <<queued_uploads, infoArr, req>>
    /\ UNCHANGED <<call, backend, store, paths, narArr, finishCalls, finishOk,
                   insertCalls>>

(***************************************************************************)
(* complete_upload                                                         *)
(***************************************************************************)
\* LocalBackend::finish_nar; io is FALSE when the file system refuses
finish_nar_local(i, io) ==
    /\ req[i].pc = "finish_nar"
    /\ backend = "local"
    /\ LET q == req[i]
           m == IF io THEN LocalRename(store, q.url)
                ELSE [ok |-> FALSE, st |-> store]
           done == [req EXCEPT ![i].finished = m.ok]
       IN  /\ finishCalls' = Bump(finishCalls, q.url)
           /\ finishOk' = IF m.ok THEN Bump(finishOk, q.url) ELSE finishOk
           /\ req' = AfterPromote(done, i, q.url, m.ok, TRUE, Try(m.ok, "insert"))
           /\ store' = m.st
    /\ UNCHANGED <<call, backend, queued_uploads, paths, nreq, narArr, infoArr,
                   insertCalls>>

\* Bucket::finish_nar, first call: copy_object_internal
finish_nar_s3_copy(i, io) ==
    /\ req[i].pc = "finish_nar"
    /\ backend = "s3"
    /\ LET q == req[i]
           m == IF io THEN S3Copy(store, q.url)
                ELSE [ok |-> FALSE, st |-> store]
       IN  /\ finishCalls' = Bump(finishCalls, q.url)
           /\ req' = AfterPromote(req, i, q.url, m.ok, FALSE,
                                  Try(m.ok, "delete_object"))
           /\ store' = m.st
    /\ UNCHANGED <<call, backend, queued_uploads, paths, nreq, narArr, infoArr,
                   finishOk, insertCalls>>

\* Bucket::finish_nar, second call: delete_object
finish_nar_s3_delete(i, io) ==
    /\ req[i].pc = "delete_object"
    /\ LET q == req[i]
           next == Try(io, "insert")
       IN  /\ finishOk' = IF io THEN Bump(finishOk, q.url) ELSE finishOk
           /\ req' = [req EXCEPT ![i] =
                        IF next = "idle" THEN Idle
                        ELSE [q EXCEPT !.pc = next, !.finished = io]]
           /\ store' = IF io THEN S3Delete(store, q.url) ELSE store
    /\ UNCHANGED <<call, backend, queued_uploads, paths, nreq, narArr, infoArr,
                   finishCalls, insertCalls>>

\* the insert into paths; db is FALSE when the database refuses for a reason
\* other than the primary key
insert_into_paths(i, db) ==
    /\ req[i].pc = "insert"
    /\ LET q == req[i]
           m == IF db THEN InsertRow(paths, q.nar_info.v)
                ELSE [ok |-> FALSE, table |-> paths]
       IN  /\ paths' = m.table
           /\ insertCalls' = Bump(insertCalls, q.url)
           /\ req' = [req EXCEPT ![i] = Idle]
    /\ UNCHANGED <<call, backend, queued_uploads, store, nreq, narArr, infoArr,
                   finishCalls, finishOk>>

Next ==
    \/ \E i \in Slots, name \in NarXzNames : put_nar_open(i, name)
    \/ \E i \in Slots : write_nar_copy(i)
    \/ \E i \in Slots : write_nar_put(i)
    \/ \E i \in Slots : write_nar_error(i)
    \/ \E i \in Slots : add_incomplete(i)
    \/ \E i \in Slots, name \in NarinfoNames, input \in NarInfos :
          put_narinfo(i, name, input)
    \/ \E i \in Slots, io \in BOOLEAN : finish_nar_local(i, io)
    \/ \E i \in Slots, io \in BOOLEAN : finish_nar_s3_copy(i, io)
    \/ \E i \in Slots, io \in BOOLEAN : finish_nar_s3_delete(i, io)
    \/ \E i \in Slots, db \in BOOLEAN : insert_into_paths(i, db)

Spec == Init /\ [][Next]_vars

(***************************************************************************)
(* Clients that upload distinct keys, one (bytes, metadata) pair per key   *)
(***************************************************************************)
\* no put_nar for the key has been received that is still running or has
\* reached the table
NoBytesYet(u) ==
    /\ narArr[u] = 0
    /\ \A j \in Slots : req[j].url = u => req[j].pc \notin {"copy", "add_incomplete"}

\* no put_narinfo for the key has been received
NoMetadataYet(u) == infoArr[u] = 0

NextKeys ==
    \/ \E i \in Slots, name \in KeyNames :
          NoBytesYet(NarUrl(name)) /\ put_nar_open(i, name)
    \/ \E i \in Slots : write_nar_copy(i)
    \/ \E i \in Slots : write_nar_put(i)
    \/ \E i \in Slots : write_nar_error(i)
    \/ \E i \in Slots : add_incomplete(i)
    \/ \E i \in Slots, name \in NarinfoNames, input \in PairInfos :
          /\ NoMetadataYet(PendingKey(NamedDbPath(name, input)).v)
          /\ put_narinfo(i, name, input)
    \/ \E i \in Slots, io \in BOOLEAN : finish_nar_local(i, io)
    \/ \E i \in Slots, io \in BOOLEAN : finish_nar_s3_copy(i, io)
    \/ \E i \in Slots, io \in BOOLEAN : finish_nar_s3_delete(i, io)
    \/ \E i \in Slots, db \in BOOLEAN : insert_into_paths(i, db)

SpecKeys == Init /\ [][NextKeys]_vars

TypeOK ==
    /\ backend \in {"local", "s3"}
    /\ nreq \in 0..MaxReq
    /\ \A u \in Urls : queued_uploads[u].tag \in {"Absent", "Nar", "NarInfo"}
    /\ \A u \in Urls : store.tmp[u].present \in BOOLEAN
    /\ \A i \in Slots : req[i].fd \in {"none", "tmp", "data", "unlinked"}

(***************************************************************************)
(* What the claims speak about                                             *)
(***************************************************************************)
\* the rows of paths whose url is the key u
Rows(u) == RowsByUrl(paths, "nar/" \o u)

\* the requests at one of the given places for key u
At(u, pcs) == {i \in Slots : req[i].url = u /\ req[i].pc \in pcs}

\* the requests past the table transition that paired them, for key u
Finalizing(u) == At(u, {"finish_nar", "delete_object", "insert"})

\* pairings for key u so far: finish_nar called, or about to be
Pairings(u) == finishCalls[u] + Cardinality(At(u, {"finish_nar"}))

\* C1: for a key that has seen exactly one bytes arrival and one metadata
\* arrival, once the finalization is over and neither promote nor insert
\* failed, finish_nar was called exactly once and exactly one row was
\* inserted for the key; after the first of the two arrivals no finish_nar
\* call and no insert has been made or is under way.
C1_ExactlyOnce ==
    \A u \in Urls :
        /\ narArr[u] + infoArr[u] = 1 =>
              /\ finishCalls[u] = 0
              /\ insertCalls[u] = 0
              /\ Finalizing(u) = {}
        /\ ( /\ narArr[u] = 1
             /\ infoArr[u] = 1
             /\ Finalizing(u) = {}
             /\ finishOk[u] = finishCalls[u]
             /\ Cardinality(Rows(u)) = insertCalls[u] ) =>
              /\ finishCalls[u] = 1
              /\ insertCalls[u] = 1
              /\ Cardinality(Rows(u)) = 1

C1_Witness ==
    \E u \in Urls :
        /\ narArr[u] = 1
        /\ infoArr[u] = 1
        /\ Finalizing(u) = {}
        /\ finishCalls[u] = 1
        /\ finishOk[u] = 1
        /\ insertCalls[u] = 1
        /\ Cardinality(Rows(u)) = 1

\* C3: after one bytes arrival and one metadata arrival for a key, whatever
\* the interleaving of the two requests, the table holds no entry for the key
\* and exactly one of the two went on to finalize.
C3_AtomicTransition ==
    \A u \in Urls :
        (narArr[u] = 1 /\ infoArr[u] = 1) =>
            /\ queued_uploads[u] = Absent
            /\ Pairings(u) = 1

C3_Witness ==
    \E u \in Urls :
        /\ narArr[u] = 1
        /\ infoArr[u] = 1
        /\ At(u, {"finish_nar"}) # {}

\* C4: every insert into paths, made or about to be made, belongs to a
\* finalization whose own finish_nar returned Ok; a finalization whose
\* finish_nar failed makes no insert.
C4_InsertAfterPromote ==
    /\ \A u \in Urls :
          insertCalls[u] + Cardinality(At(u, {"insert"})) <= finishOk[u]
    /\ \A i \in Slots : req[i].pc = "insert" => req[i].finished

C4_Witness ==
    \E u \in Urls :
        /\ finishOk[u] < finishCalls[u]
        /\ insertCalls[u] >= 1
        /\ insertCalls[u] = finishOk[u]
        /\ Finalizing(u) = {}

\* C2: in every interleaving of arrivals for one key, finish_nar is called
\* at most once for that key.
C2_AtMostOnePromote ==
    \A u \in Urls : finishCalls[u] <= 1

\* a finalization of slot i returns Err in this step
FinalizationFails(i) ==
    /\ req[i].pc \in {"finish_nar", "delete_object", "insert"}
    /\ req'[i].pc = "idle"
    /\ req[i].pc = "insert" => paths' = paths

\* C5: when a finalization returns an error, the object it put under the
\* data namespace (if any) is not there afterwards, and paths holds no row
\* that it wrote.
C5_FailedUploadInvisible ==
    [][\A i \in Slots :
          FinalizationFails(i) =>
             /\ req[i].promoted => ~store'.data[req[i].url].present
             /\ paths' = paths]_vars

\* a body written from the first to the last chunk by one write_nar
Complete(content) ==
    /\ Len(content) = StreamLen
    /\ \E w \in Slots : \A k \in 1..StreamLen : content[k] = w

\* the write_nar calls that have the staging object of the key open
Writers(u) ==
    {i \in Slots : req[i].pc = "copy" /\ req[i].url = u /\ req[i].fd = "tmp"}

\* C6: whenever finish_nar is about to run for a key, the staging object of
\* the key is the complete body of one write_nar call and no write_nar has it
\* open; every object under data is a complete body.
C6_PromoteOnlyComplete ==
    /\ \A i \in Slots :
          req[i].pc = "finish_nar" =>
             /\ store.tmp[req[i].url].present
             /\ Complete(store.tmp[req[i].url].bytes)
             /\ Writers(req[i].url) = {}
    /\ \A u \in Urls :
          store.data[u].present => Complete(store.data[u].bytes)

\* an upload for the key is under way and none has been finalized
Pending(u) ==
    /\ \/ queued_uploads[u] # Absent
       \/ store.tmp[u].present
    /\ finishOk[u] = 0

\* C7: while an upload for a key is pending and not finalized, get_nar and
\* read_nar answer NotFound for it; read_nar returns no bytes for a key
\* before a finish_nar for it has returned Ok.
C7_FetchBeforePublish ==
    \A name \in NarXzNames :
        LET u == NarUrl(name)
        IN  /\ Pending(u) =>
                 /\ get_nar(backend, paths, store, name).res = "Err(NotFound)"
                 /\ read_nar(backend, store, u).res = "Err(NotFound)"
            /\ finishOk[u] = 0 => ~store.data[u].present

\* the row comes from a record that check_signature accepts
Verified(db) ==
    \E n \in NarInfos :
        /\ DbPathFrom(n) = [db EXCEPT !.id = ""]
        /\ check_signature(n, TrustedKeys) = "SignatureVerified"

\* C8: every record that put_narinfo queued in the table or wrote to paths
\* passed check_signature against the trusted keys.
C8_OnlyVerifiedPublished ==
    /\ \A u \in Urls :
          queued_uploads[u].tag = "NarInfo" => Verified(queued_uploads[u].nar_info)
    /\ \A id \in NarinfoNames : paths[id] # NoRow => Verified(paths[id])

\* C9: a part that finds an entry of its own kind under its key replaces it
\* and triggers nothing: afterwards the table holds the new part for the key,
\* the request is over, and no finish_nar call and no insert has been made
\* (a record that finds no entry is stored in the same way).
\* Bytes that find a record waiting finalize with that record, and the insert
\* writes the record the finalization carries: with M1, M2, bytes in this
\* order, the row is M2.
C9_SameKindReplacement ==
    [][/\ infoArr' # infoArr =>
             \A i \in Slots, name \in NarinfoNames, input \in NarInfos :
                LET db == NamedDbPath(name, input)
                    k == PendingKey(db)
                IN  ( /\ put_narinfo(i, name, input)
                      /\ k.some
                      /\ queued_uploads[k.v].tag \in {"NarInfo", "Absent"} ) =>
                         /\ queued_uploads'[k.v] = NarInfoPart(db)
                         /\ req'[i] = Idle
                         /\ UNCHANGED <<finishCalls, insertCalls, paths, store>>
       /\ narArr' # narArr =>
             \A i \in Slots :
                /\ (add_incomplete(i) /\ queued_uploads[req[i].url].tag = "Nar") =>
                      /\ queued_uploads'[req[i].url] = Nar
                      /\ req'[i] = Idle
                      /\ UNCHANGED <<finishCalls, insertCalls, paths, store>>
                /\ (add_incomplete(i) /\ queued_uploads[req[i].url].tag = "NarInfo") =>
                      /\ req'[i].pc = "finish_nar"
                      /\ req'[i].nar_info = SomeDb(queued_uploads[req[i].url].nar_info)
                      /\ queued_uploads'[req[i].url] = Absent
       /\ \A id \in NarinfoNames :
             paths'[id] # paths[id] =>
                \E i \in Slots :
                   /\ req[i].pc = "insert"
                   /\ req'[i] = Idle
                   /\ paths'[id] = req[i].nar_info.v]_vars

\* two records arrived for the key, then the bytes, and the row is written
C9_Witness ==
    \E u \in Urls :
        /\ infoArr[u] = 2
        /\ narArr[u] = 1
        /\ queued_uploads[u] = Absent
        /\ Finalizing(u) = {}
        /\ Cardinality(Rows(u)) = 1

(***************************************************************************)
(* The handlers run one after the other, without interleaving              *)
(***************************************************************************)
RECURSIVE CopyAll(_, _, _, _)
CopyAll(st, url, off, w) ==
    IF off >= StreamLen THEN st
    ELSE CopyAll(LocalWrite(st, url, "tmp", off, w), url, off + 1, w)

\* write_nar from the first chunk to Ok
SeqWriteNar(kind, st, url) ==
    IF kind = "local" THEN CopyAll(LocalCreate(st, url), url, 0, 1)
    ELSE S3Put(st, url, Body(1))

\* finish_nar with a file system or bucket that does not refuse
SeqFinishNar(kind, st, url) ==
    IF kind = "local" THEN LocalRename(st, url)
    ELSE LET m == S3Copy(st, url)
         IN  IF Try(m.ok, "delete_object") = "delete_object"
             THEN [ok |-> m.ok, st |-> S3Delete(m.st, url)]
             ELSE m

\* complete_upload
SeqCompleteUpload(kind, S, url, db) ==
    LET m == SeqFinishNar(kind, S.store, url)
    IN  IF Try(m.ok, "insert") = "insert"
        THEN [S EXCEPT !.store = m.st,
                       !.paths = InsertRow(S.paths, db).table]
        ELSE [S EXCEPT !.store = m.st]

\* add_incomplete
SeqAddIncomplete(kind, S, url, part) ==
    LET t == LockedTransition(S.queued, url, part)
        S1 == [S EXCEPT !.queued = t.queued]
    IN  IF t.nar_info.some THEN SeqCompleteUpload(kind, S1, url, t.nar_info.v)
        ELSE S1

\* put_nar
SeqPutNar(kind, S, name) ==
    SeqAddIncomplete(kind,
                     [S EXCEPT !.store = SeqWriteNar(kind, S.store, NarUrl(name))],
                     NarUrl(name), Nar)

\* put_narinfo
SeqPutNarinfo(kind, S, name, input) ==
    LET db == NamedDbPath(name, input)
        k == PendingKey(db)
    IN  IF k.some THEN SeqAddIncomplete(kind, S, k.v, NarInfoPart(db)) ELSE S

\* what can be told of a state from outside: the table, the rows, and the
\* bytes under each key in both namespaces
Observed(S) ==
    [queued |-> S.queued,
     paths |-> S.paths,
     tmp |-> S.store.tmp,
     data |-> S.store.data]

Now == [queued |-> queued_uploads, store |-> store, paths |-> paths]

Quiescent == \A i \in Slots : req[i].pc = "idle"

BytesThenMetadata(name, id, input) ==
    SeqPutNarinfo(backend, SeqPutNar(backend, Now, name), id, input)

MetadataThenBytes(name, id, input) ==
    SeqPutNar(backend, SeqPutNarinfo(backend, Now, id, input), name)

\* the pairs of requests that address one key
SameKey(name, id, input) ==
    PendingKey(NamedDbPath(id, input)) = Some(NarUrl(name))

\* C10 as stated: from any state with no request in flight, the bytes for a
\* key followed by a record for it, and the record followed by the bytes,
\* end in the same state.
C10_AnyStart ==
    Quiescent =>
       \A name \in NarXzNames, id \in NarinfoNames, input \in NarInfos :
           SameKey(name, id, input) =>
              Observed(BytesThenMetadata(name, id, input))
                 = Observed(MetadataThenBytes(name, id, input))

\* C10, amended: from any state with no request in flight and no pending
\* entry for the key, the bytes followed by the record, and the record
\* followed by the bytes, end in the same state.
C10_OrderIrrelevant ==
    Quiescent =>
       \A name \in NarXzNames, id \in NarinfoNames, input \in NarInfos :
           (SameKey(name, id, input) /\ queued_uploads[NarUrl(name)] = Absent) =>
              Observed(BytesThenMetadata(name, id, input))
                 = Observed(MetadataThenBytes(name, id, input))

\* a state from which both orders publish the record
C10_Witness ==
    /\ Quiescent
    /\ \E name \in NarXzNames, id \in NarinfoNames, input \in NarInfos :
          /\ SameKey(name, id, input)
          /\ queued_uploads[NarUrl(name)] = Absent
          /\ paths[id] = NoRow
          /\ BytesThenMetadata(name, id, input).paths[id] = NamedDbPath(id, input)
          /\ MetadataThenBytes(name, id, input).paths[id] = NamedDbPath(id, input)
          /\ BytesThenMetadata(name, id, input).queued[NarUrl(name)] = Absent

(***************************************************************************)
(* Distinct keys                                                           *)
(***************************************************************************)
\* all that the server holds for one key: the pending entry, the objects in
\* both namespaces, the rows, and the calls made for it
KeyState(u) ==
    <<queued_uploads[u], store.tmp[u], store.data[u], Rows(u),
      narArr[u], infoArr[u], finishCalls[u], finishOk[u], insertCalls[u]>>

\* the requests in flight for the key
KeyRequests(u) == [i \in Slots |-> IF req[i].url = u THEN req[i] ELSE Idle]

\* C11: with one (bytes, metadata) pair per key, for distinct keys, uploaded
\* concurrently: a step of a request for key K leaves the pending entry, the
\* objects, the rows and the finish_nar and insert counts of every other key
\* as they were, no step changes anything of two keys at once, and each key
\* is paired and finalized exactly once when both its halves have arrived.
C11_NoCrossKeyInterference ==
    [][/\ \A u \in Urls, v \in Urls :
             (u # v /\ KeyState(u)' # KeyState(u)) =>
                /\ KeyState(v)' = KeyState(v)
                /\ KeyRequests(v)' = KeyRequests(v)
       /\ \A i \in Slots, v \in Urls :
             (req[i].pc # "idle" /\ req'[i] # req[i] /\ v # req[i].url) =>
                KeyState(v)' = KeyState(v)
       /\ \A i \in Slots, name \in NarinfoNames, input \in PairInfos, v \in Urls :
             ( /\ put_narinfo(i, name, input)
               /\ v # PendingKey(NamedDbPath(name, input)).v ) =>
                  KeyState(v)' = KeyState(v)
       /\ \A u \in Urls :
             /\ Pairings(u)' <= 1
             /\ (narArr'[u] = 1 /\ infoArr'[u] = 1) =>
                   (Pairings(u)' = 1 /\ queued_uploads'[u] = Absent)]_vars

\* both keys uploaded and indexed, one finish_nar and one row each
C11_Witness ==
    /\ \A u \in Urls :
          /\ finishCalls[u] = 1
          /\ finishOk[u] = 1
          /\ Cardinality(Rows(u)) = 1
    /\ \A i \in Slots : req[i].pc = "idle"

(***************************************************************************)
(* Promote on the object store                                             *)
(***************************************************************************)
\* C12: on the S3 backend no step takes a key from having an object (under
\* tmp, under data or both) to having none, so stopping after any step of
\* finish_nar leaves at worst a duplicate; and the object under tmp goes away
\* only by the delete_object of a finish_nar whose copy returned Ok, with an
\* object under data at that moment.
C12_CopyThenDelete ==
    [][backend = "s3" =>
         \A u \in Urls :
            /\ (store.tmp[u].present \/ store.data[u].present) =>
                  (store'.tmp[u].present \/ store'.data[u].present)
            /\ (store.tmp[u].present /\ ~store'.tmp[u].present) =>
                  /\ store.data[u].present
                  /\ store'.data[u] = store.data[u]
                  /\ \E i \in Slots :
                        /\ req[i].pc = "delete_object"
                        /\ req[i].url = u
                        /\ req'[i].pc = "insert"]_vars

\* finish_nar failed between the copy and the delete: the object is under
\* both keys
C12_Witness ==
    /\ backend = "s3"
    /\ \E u \in Urls :
          /\ finishCalls[u] = 1
          /\ finishOk[u] = 0
          /\ Finalizing(u) = {}
          /\ store.tmp[u].present
          /\ store.data[u].present

(***************************************************************************)
(* Fetch of a key that is not there                                        *)
(***************************************************************************)
\* C13: for a key with no object under data, read_nar and get_nar answer
\* NotFound (a 404), not another error and not a byte stream.
C13_FetchNotFound ==
    \A name \in KeyNames :
        ~store.data[NarUrl(name)].present =>
            /\ read_nar(backend, store, NarUrl(name)).res = "Err(NotFound)"
            /\ respond_to(read_nar(backend, store, NarUrl(name)).res) = 404
            /\ get_nar(backend, paths, store, name).res = "Err(NotFound)"

(***************************************************************************)
(* The pending entry of a key across pairing, finalization and retry       *)
(***************************************************************************)
\* the step is the arrival of a part for key u at the table
BytesArrive(u) == narArr'[u] # narArr[u]
MetadataArrives(u) == infoArr'[u] # infoArr[u]

\* C19: an arrival that meets a pending entry of the opposite kind for the
\* key leaves the table without an entry for the key and starts one
\* finalization; no step of a finalization, successful or failed, touches the
\* table; an arrival that finds no entry for the key, as after a failed
\* finalization, is stored as the pending entry and starts no finalization.
C19_ConsumedOnPairing ==
    [][IF narArr' = narArr /\ infoArr' = infoArr
       THEN queued_uploads' = queued_uploads
       ELSE \A u \in Urls :
              IF BytesArrive(u) \/ MetadataArrives(u)
              THEN LET was == queued_uploads[u].tag
                       opposite == \/ BytesArrive(u) /\ was = "NarInfo"
                                   \/ MetadataArrives(u) /\ was = "Nar"
                       before == At(u, {"finish_nar"})
                       after == {i \in Slots : /\ req'[i].url = u
                                               /\ req'[i].pc = "finish_nar"}
                   IN  /\ opposite =>
                              /\ queued_uploads'[u] = Absent
                              /\ Cardinality(after) = Cardinality(before) + 1
                       /\ was = "Absent" =>
                              /\ queued_uploads'[u].tag =
                                     IF BytesArrive(u) THEN "Nar" ELSE "NarInfo"
                              /\ after = before
              ELSE queued_uploads'[u] = queued_uploads[u]]_vars

\* the one finalization of the key failed, and the half sent again after it
\* waits in the table
C19_Witness ==
    \E u \in Urls :
        /\ narArr[u] + infoArr[u] = 3
        /\ finishCalls[u] = 1
        /\ finishOk[u] = 0
        /\ insertCalls[u] = 0
        /\ Finalizing(u) = {}
        /\ queued_uploads[u] # Absent

(***************************************************************************)
(* Rows of the index and the objects under data                            *)
(***************************************************************************)
\* the key get_nar reads for a row: the row's url without "nar/"
RowKey(row) == PendingKey(row)

\* C20: for every row of paths, the row has a url and an object is there
\* under data at the key of that url.
C20_IndexImpliesPromoted ==
    \A id \in DOMAIN paths :
        paths[id] # NoRow =>
            /\ RowKey(paths[id]).some
            /\ RowKey(paths[id]).v \in Urls
            /\ store.data[RowKey(paths[id]).v].present

\* a row is there, and after it the key was uploaded again and a
\* finalization for it failed
C20_Witness ==
    \E id \in DOMAIN paths :
        /\ paths[id] # NoRow
        /\ LET u == RowKey(paths[id]).v
           IN  /\ store.data[u].present
               /\ narArr[u] >= 2
               /\ finishCalls[u] > finishOk[u]
               /\ finishOk[u] >= 1

(***************************************************************************)
(* The bytes served for a key once it is in the index                      *)
(***************************************************************************)
\* C21: once paths has a row for the key and an object is under data for it,
\* no step changes the bytes read_nar returns for the key.
C21_PublishedImmutable ==
    [][\A name \in NarXzNames :
          LET u == NarUrl(name)
          IN  (Rows(u) # {} /\ store.data[u].present) =>
                 read_nar(backend, store', u).bytes =
                    read_nar(backend, store, u).bytes]_vars

(***************************************************************************)
(* Metadata without a key                                                  *)
(***************************************************************************)
\* C24: a put_narinfo whose record has no url, or a url that does not start
\* with "nar/", ends in its one step and leaves the pending table, the
\* objects of the backend, the rows of paths and every other request as
\* they were; and no row of paths ever has such a url.
C24_NoKeyNoEffect ==
    [][/\ nreq' # nreq =>
            \A input \in NarInfos :
               (~input.url.some \/ ~StripPrefix(input.url.v, "nar/").some) =>
                  \A i \in Slots, name \in NarinfoNames :
                     put_narinfo(i, name, input) =>
                        /\ queued_uploads' = queued_uploads
                        /\ store' = store
                        /\ paths' = paths
                        /\ req' = req
                        /\ hist' = hist
       /\ paths' # paths =>
            \A id \in DOMAIN paths :
               paths'[id] # NoRow =>
                  /\ paths'[id].url.some
                  /\ StripPrefix(paths'[id].url.v, "nar/").some]_vars

\* on the local backend, where every put_nar leaves a file under tmp: one
\* request has been served and nothing is pending, stored or indexed, so the
\* request was a put_narinfo without a key
C24_Witness ==
    /\ backend = "local"
    /\ nreq = 1
    /\ Quiescent
    /\ \A u \in Urls : /\ queued_uploads[u] = Absent
                       /\ ~store.tmp[u].present
                       /\ ~store.data[u].present
    /\ \A id \in DOMAIN paths : paths[id] = NoRow

(***************************************************************************)
(* The codecs applied to values and texts                                  *)
(***************************************************************************)
\* everything but the codec call stays as launch left it
Server ==
    <<backend, queued_uploads, store, paths, req, nreq, narArr, infoArr,
      finishCalls, finishOk, insertCalls>>

\* a NarInfo with the fields that make the fingerprint
FullNarInfo(path, nar_hash, nar_size, references) ==
    [NoNarInfo EXCEPT !.path = path, !.nar_hash = nar_hash,
                      !.nar_size = nar_size, !.references = references]

\* the record with the signature of the holder of pk added under key_name
SignWith(m, key_name, pk) ==
    [m EXCEPT !.signatures =
        [k \in DOMAIN @ \cup {key_name} |->
            IF k = key_name THEN Ed25519Sign(pk, fingerprint(m)) ELSE @[k]]]

K1 == [key_name |-> "k1", pub_key |-> "pk1"]
K2 == [key_name |-> "k2", pub_key |-> "pk2"]
\* another key published under the name of K1
K1Other == [key_name |-> "k1", pub_key |-> "pk9"]

H1 == [hash_type |-> "sha256", hash |-> "h1"]
H2 == [hash_type |-> "sha512", hash |-> "h2"]

Unsigned == FullNarInfo("/nix/store/p1", H1, 1, {"/nix/store/r1"})

\* who signed the record: nobody, K1, K2, both, or K2's holder under K1's name
Signers == {"none", "K1", "K2", "K1+K2", "K2 as k1"}

SignedBy(m, who) ==
    CASE who = "none" -> m
      [] who = "K1" -> SignWith(m, "k1", "pk1")
      [] who = "K2" -> SignWith(m, "k2", "pk2")
      [] who = "K1+K2" -> SignWith(SignWith(m, "k1", "pk1"), "k2", "pk2")
      [] who = "K2 as k1" -> SignWith(m, "k1", "pk2")

\* what was changed in the record after it was signed
Tampers == {"none", "path", "nar_hash", "nar_size", "references", "url", "deriver"}

Tamper(m, what) ==
    CASE what = "none" -> m
      [] what = "path" -> [m EXCEPT !.path = "/nix/store/p2"]
      [] what = "nar_hash" -> [m EXCEPT !.nar_hash = H2]
      [] what = "nar_size" -> [m EXCEPT !.nar_size = 2]
      [] what = "references" -> [m EXCEPT !.references = @ \cup {"/nix/store/r2"}]
      [] what = "url" -> [m EXCEPT !.url = Some("nar/x.nar.xz")]
      [] what = "deriver" -> [m EXCEPT !.deriver = Some("d.drv")]

TrustedKeySets ==
    {<<>>, <<K1>>, <<K2>>, <<K2, K1>>, <<K1, K2>>, <<K1Other, K1>>}

\* check_signature applied to a record signed by who and changed afterwards
check_signature_call(who, what, trusted_keys) ==
    /\ call = NoCall
    /\ call' = [fn |-> "check_signature",
                who |-> who,
                what |-> what,
                nar_info |-> Tamper(SignedBy(Unsigned, who), what),
                trusted_keys |-> trusted_keys,
                ret |-> check_signature(Tamper(SignedBy(Unsigned, who), what),
                                        trusted_keys)]
    /\ UNCHANGED Server

\* C14: check_signature returns SignatureVerified exactly when some trusted
\* key has its name among the record's signatures and that signature is the
\* Ed25519 signature of the record's fingerprint under that key.  So a record
\* signed by K1 verifies against every trusted set that holds K1 as long as
\* none of path, nar_hash, nar_size, references was changed after signing
\* (other fields may change), fails once one of them was changed, and fails
\* against the set that holds only K2.
C14_VerifyExactly ==
    call.fn = "check_signature" =>
        LET m == call.nar_info
            keys == call.trusted_keys
            HasK1 == \E i \in 1..Len(keys) : keys[i] = K1
        IN  /\ call.ret \in {"SignatureVerified", "NoValidSignature"}
            /\ call.ret = "SignatureVerified" <=>
                  \E i \in 1..Len(keys) :
                     /\ keys[i].key_name \in DOMAIN m.signatures
                     /\ m.signatures[keys[i].key_name]
                           = Ed25519Sign(keys[i].pub_key, fingerprint(m))
            /\ (call.who = "K1" /\ HasK1) =>
                  (call.ret = "SignatureVerified"
                      <=> call.what \in {"none", "url", "deriver"})
            /\ (call.who = "K1" /\ keys = <<K2>>) =>
                  call.ret = "NoValidSignature"

\* a record signed by K1 verifies although the first trusted key of its name
\* is another key
C14_Witness ==
    /\ call.fn = "check_signature"
    /\ call.who = "K1"
    /\ call.what = "url"
    /\ call.trusted_keys = <<K1Other, K1>>
    /\ call.ret = "SignatureVerified"

\* the references of a record in the order they were inserted
InsertionOrders ==
    {<<>>, <<"/nix/store/r1">>, <<"/nix/store/r2">>,
     <<"/nix/store/r1", "/nix/store/r2">>, <<"/nix/store/r2", "/nix/store/r1">>,
     <<"/nix/store/r1", "/nix/store/r1">>}

\* BTreeSet::insert of each element of a sequence
BTreeSetOf(seq) == {seq[k] : k \in 1..Len(seq)}

\* fields outside the fingerprint
Others == {"none", "url", "deriver", "K1", "K1+K2"}

WithOther(m, other) ==
    IF other \in Signers THEN SignedBy(m, other) ELSE Tamper(m, other)

\* fingerprint applied to a record built from its fields
fingerprint_call(path, nar_hash, nar_size, inserted, other) ==
    /\ call = NoCall
    /\ call' = [fn |-> "fingerprint",
                path |-> path,
                nar_hash |-> nar_hash,
                nar_size |-> nar_size,
                inserted |-> inserted,
                other |-> other,
                ret |-> fingerprint(WithOther(FullNarInfo(path, nar_hash, nar_size,
                                                          BTreeSetOf(inserted)),
                                              other))]
    /\ UNCHANGED Server

\* the references of the model, sorted and comma-joined
SortedCommaJoined(refs) ==
    CASE refs = {} -> ""
      [] refs = {"/nix/store/r1"} -> "/nix/store/r1"
      [] refs = {"/nix/store/r2"} -> "/nix/store/r2"
      [] refs = {"/nix/store/r1", "/nix/store/r2"} -> "/nix/store/r1,/nix/store/r2"

\* C16: the fingerprint of a record is "1;" path ";" nar_hash as text ";"
\* nar_size ";" and the references sorted and joined by commas, whatever the
\* order in which the references were inserted and whatever the other fields
\* of the record hold.
C16_FingerprintDeterministic ==
    call.fn = "fingerprint" =>
        call.ret = "1;" \o call.path \o ";"
                        \o call.nar_hash.hash_type \o ":"
                        \o Base32Encode(call.nar_hash.hash) \o ";"
                        \o ToString(call.nar_size) \o ";"
                        \o SortedCommaJoined(BTreeSetOf(call.inserted))

\* references inserted in descending order, in a signed record
C16_Witness ==
    /\ call.fn = "fingerprint"
    /\ call.inserted = <<"/nix/store/r2", "/nix/store/r1">>
    /\ call.other = "K1+K2"
    /\ call.ret = "1;/nix/store/p1;sha256:b32<h1>;20;/nix/store/r1,/nix/store/r2"

\* a NarInfo written by Display and read back by from_str
round_trip(m) ==
    /\ call = NoCall
    /\ call' = [fn |-> "round_trip",
                nar_info |-> m,
                text |-> NarInfoToString(m),
                ret |-> NarInfoFromStr(NarInfoToString(m))]
    /\ UNCHANGED Server

\* C15: for every NarInfo (each optional field absent or present, each
\* compression, no, one or two references, no, one or two signatures),
\* from_str of the text Display writes succeeds and gives the same value,
\* the signatures compared as a map.
C15_RoundTrip ==
    call.fn = "round_trip" =>
        /\ call.ret.ok
        /\ call.ret.v = call.nar_info

\* a record with every field present, two references and two signatures
C15_Witness ==
    /\ call.fn = "round_trip"
    /\ call.nar_info.file_hash.some
    /\ call.nar_info.file_size.some
    /\ call.nar_info.url.some
    /\ call.nar_info.compression = Some("Plain")
    /\ call.nar_info.deriver.some
    /\ call.nar_info.ca.some
    /\ Cardinality(call.nar_info.references) = 2
    /\ Cardinality(DOMAIN call.nar_info.signatures) = 2
    /\ Len(call.text) = 12
    /\ call.ret.ok

\* the lines of the required keys, of some other recognized keys, and lines
\* with keys from_str does not know
RequiredLines ==
    <<"StorePath: /nix/store/p1", "NarHash: sha256:b32<h1>", "NarSize: 20">>
OptionalLines ==
    <<"URL: nar/x.nar.xz", "Compression: xz", "References: r1 r2",
      "Sig: k1:b64<s1>">>
UnknownLines == <<"System: x86_64-linux", "X-Comment: a: b">>

\* the lines of a sequence at the chosen positions, in their order
Pick(lines, chosen) == SelectSeq(lines, LAMBDA l : \E k \in chosen : lines[k] = l)

\* where the lines with unknown keys go
Placements == {"none", "first", "last", "both", "middle"}

Place(required, optional, where) ==
    CASE where = "none" -> required \o optional
      [] where = "first" -> <<UnknownLines[1]>> \o required \o optional
      [] where = "last" -> required \o optional \o <<UnknownLines[2]>>
      [] where = "both" -> <<UnknownLines[2]>> \o required \o optional
                              \o <<UnknownLines[1]>>
      [] where = "middle" -> required \o UnknownLines \o optional

\* from_str applied to a text of well-formed lines
from_str_call(required, optional, where) ==
    /\ call = NoCall
    /\ call' = [fn |-> "from_str",
                required |-> required,
                where |-> where,
                text |-> Place(Pick(RequiredLines, required),
                               Pick(OptionalLines, optional), where),
                ret |-> NarInfoFromStr(Place(Pick(RequiredLines, required),
                                             Pick(OptionalLines, optional), where)),
                plain |-> NarInfoFromStr(Place(Pick(RequiredLines, required),
                                               Pick(OptionalLines, optional),
                                               "none"))]
    /\ UNCHANGED Server

\* C17: for a text of well-formed lines with valid values, from_str succeeds
\* exactly when the StorePath, NarHash and NarSize lines are all there, fails
\* with BadNarInfo otherwise, and gives the same outcome and the same value
\* as for the text without its lines of unknown keys.
C17_RequiredKeys ==
    call.fn = "from_str" =>
        /\ call.ret.ok <=> call.required = {1, 2, 3}
        /\ ~call.ret.ok => call.ret.err = "BadNarInfo"
        /\ call.ret = call.plain

\* a complete text with lines of unknown keys around it parses
C17_Witness ==
    /\ call.fn = "from_str"
    /\ call.required = {1, 2, 3}
    /\ call.where = "both"
    /\ Len(call.text) = 9
    /\ call.ret.ok
    /\ call.ret.v.references = {"/nix/store/r1", "/nix/store/r2"}

\* texts of a signature or of a public key
KeyTexts ==
    {"k1:b64<s1>", ":b64<s1>", ":", "k1:", "k1", "", "k1:s1", ":s1",
     "k1:b64<a:b>", "b64<s1>"}

\* Signature::from_str applied to a text
signature_from_str_call(text) ==
    /\ call = NoCall
    /\ call' = [fn |-> "Signature::from_str", text |-> text,
                ret |-> SignatureFromStr(text)]
    /\ UNCHANGED Server

\* PubKey::from_str applied to a text
pub_key_from_str_call(text) ==
    /\ call = NoCall
    /\ call' = [fn |-> "PubKey::from_str", text |-> text,
                ret |-> PubKeyFromStr(text)]
    /\ UNCHANGED Server

\* C18: Signature::from_str and PubKey::from_str return an error for every
\* text without a colon and for every text whose key name, the part left of
\* the first colon, is empty.
C18_KeyNameNonEmpty ==
    call.fn \in {"Signature::from_str", "PubKey::from_str"} =>
        (Find(call.text, ":") \in {0, 1} => ~call.ret.ok)

\* a text from_str accepts goes into the index and comes back
index_round_trip(optional) ==
    /\ call = NoCall
    /\ LET parsed == NarInfoFromStr(Place(RequiredLines,
                                          Pick(OptionalLines, optional), "none"))
       IN  /\ parsed.ok
           /\ call' = [fn |-> "index_round_trip",
                       nar_info |-> parsed.v,
                       db |-> DbPathFrom(parsed.v),
                       ret |-> DbPathInto(DbPathFrom(parsed.v))]
    /\ UNCHANGED Server

\* C22: for a record from_str returned, the conversion to DbPath and back
\* does not panic and gives the same signatures and the same references,
\* also when the record has no signatures or no references.
C22_IndexRoundTrip ==
    call.fn = "index_round_trip" =>
        /\ call.ret.ok
        /\ call.ret.v.signatures = call.nar_info.signatures
        /\ call.ret.v.references = call.nar_info.references

\* sizes from_str accepts: 0, 20, 2^31 - 1, 2^31, 2^32 - 1, 2^32, 2^32 + 20,
\* 2^63, 2^64 - 1
Sizes ==
    {<<0, 0, 0, 0>>, <<20, 0, 0, 0>>, <<65535, 32767, 0, 0>>,
     <<0, 32768, 0, 0>>, <<65535, 65535, 0, 0>>, <<0, 0, 1, 0>>,
     <<20, 0, 1, 0>>, <<0, 0, 0, 32768>>, <<65535, 65535, 65535, 65535>>}

NoneI32 == [some |-> FALSE, v |-> 0]
NoneU64 == [some |-> FALSE, v |-> U64Of(0)]

\* nar_size and file_size on their way into DbPath and back
sizes_call(nar_size, file_size) ==
    /\ call = NoCall
    /\ LET stored == [nar_size |-> U64AsI32(nar_size),
                      file_size |-> IF file_size.some
                                    THEN [some |-> TRUE,
                                          v |-> U64AsI32(file_size.v)]
                                    ELSE NoneI32]
       IN  call' = [fn |-> "sizes",
                    nar_size |-> nar_size,
                    file_size |-> file_size,
                    stored |-> stored,
                    served |-> [nar_size |-> I32AsU64(stored.nar_size),
                                file_size |-> IF stored.file_size.some
                                              THEN [some |-> TRUE,
                                                    v |-> I32AsU64(stored.file_size.v)]
                                              ELSE NoneU64]]
    /\ UNCHANGED Server

\* C23: the nar_size and the file_size a record goes into DbPath with are
\* stored as non-negative numbers and come back as the same u64.
C23_SizesSurvive ==
    call.fn = "sizes" =>
        /\ call.stored.nar_size >= 0
        /\ call.stored.file_size.v >= 0
        /\ call.served.nar_size = call.nar_size
        /\ call.served.file_size = call.file_size

NextCodec ==
    \/ \E optional \in SUBSET {1, 2, 3, 4} : index_round_trip(optional)
    \/ \E nar_size \in Sizes,
          file_size \in {NoneU64} \cup {[some |-> TRUE, v |-> n] : n \in Sizes} :
          sizes_call(nar_size, file_size)
    \/ \E required \in SUBSET {1, 2, 3}, optional \in SUBSET {1, 2, 3, 4},
          where \in Placements :
          from_str_call(required, optional, where)
    \/ \E text \in KeyTexts : signature_from_str_call(text)
    \/ \E text \in KeyTexts : pub_key_from_str_call(text)
    \/ \E nar_hash \in {H1, H2}, nar_size \in {0, 20},
          file_hash \in {NoneHash, [some |-> TRUE, v |-> H2]},
          file_size \in {NoneNat, [some |-> TRUE, v |-> 7]},
          url \in {NoneStr, Some("nar/x.nar.xz")},
          compression \in {NoneStr} \cup {Some(c) : c \in Compressions},
          deriver \in {NoneStr, Some("/nix/store/d.drv")},
          ca \in {NoneStr, Some("fixed:r:sha256:b32<c>")},
          references \in SUBSET {"/nix/store/r1", "/nix/store/r2"},
          who \in {"none", "K1", "K1+K2"} :
          round_trip(SignedBy([FullNarInfo("/nix/store/p1", nar_hash, nar_size,
                                           references)
                                 EXCEPT !.file_hash = file_hash,
                                        !.file_size = file_size,
                                        !.url = url,
                                        !.compression = compression,
                                        !.deriver = deriver,
                                        !.ca = ca],
                               who))
    \/ \E who \in Signers, what \in Tampers, trusted_keys \in TrustedKeySets :
          check_signature_call(who, what, trusted_keys)
    \/ \E path \in {"/nix/store/p1", "/nix/store/p2"}, nar_hash \in {H1, H2},
          nar_size \in {1, 20}, inserted \in InsertionOrders, other \in Others :
          fingerprint_call(path, nar_hash, nar_size, inserted, other)

\* launch builds the Bucket
InitCodec == Init /\ backend = "s3"

SpecCodec == InitCodec /\ [][NextCodec]_vars

====
